---- MODULE Spec2Model ----
(***************************************************************************)
(* Order placement, order status and product stock of the A-E-commerce API *)
(* (controllers/orderController.js, controllers/productController.js,      *)
(* utils/rbac.js, middleware/permissionMiddleware.js, routes/*.js).        *)
(*                                                                         *)
(* The database is MongoDB.  createOrder runs its callback inside          *)
(* session.withTransaction: reads see the snapshot taken at the first      *)
(* operation, writes stay private until the commit, a write to a document  *)
(* another transaction has written (or that was committed after the        *)
(* snapshot) raises a transient write conflict, and withTransaction then   *)
(* aborts and runs the callback again.                                     *)
(***************************************************************************)
EXTENDS Integers, Sequences, FiniteSets, TLC

\* ------------------------------------------------------------------ bounds
MaxCalls == 3       \* createOrder requests that race for one product
MaxBusy  == 2       \* createOrder requests of a run with arbitrary bodies
MaxOps   == 1       \* createOrder requests of a run beside the other handlers
MaxItems == 2       \* line items of one request body
MaxQty   == 1       \* largest quantity of a line item
NegQty   == 1       \* quantities range down to -NegQty (the route validates nothing)
MaxStock == 1       \* largest stock a product is given
MaxPrice == 2       \* largest unit price a product is given
MaxReqs  == 2       \* user-management requests of one run
MaxPerms == 2       \* permissions one guard evaluation is asked for
MaxFaults == 1      \* transient failures of one request's commit

Calls      == 1..MaxCalls
BusyCalls  == 1..MaxBusy
OpsCalls   == 1..MaxOps
Products   == {"p1", "p2"}              \* documents of the products collection
ProductIds == Products \cup {"px"}      \* "px": a well-formed id of no document
Qtys       == (0 - NegQty)..MaxQty
Prices     == 1..MaxPrice
Users      == {"u1", "d1", "m1"}
Sellers    == Users \cup {"v1", "v2"}    \* the actors of the product routes
Readers    == Users \cup {"u2"}          \* the actors of the order read routes
Null       == [null |-> TRUE]             \* null / undefined

\* ------------------------------------------------------- roles and rbac.js
\* config/rolesConfig.js: the rows this model uses.
rolesHierarchy ==
  [ user     |-> [rank |-> 1, permissions |-> {"place_orders", "read_own_orders", "manage_own_profile"}],
    delivery |-> [rank |-> 2, permissions |-> {"update_order_status", "read_assigned_orders", "manage_own_profile"}],
    vendor   |-> [rank |-> 3, permissions |-> {"create_product", "manage_own_products",
                                               "read_own_orders", "manage_own_profile"}],
    manager  |-> [rank |-> 5, permissions |-> {"manage_orders", "read_orders", "manage_products",
                                               "create_product", "read_users", "manage_own_profile"}],
    admin    |-> [rank |-> 8, permissions |-> {"manage_users", "read_users", "assign_roles",
                                               "manage_orders", "read_orders", "manage_products",
                                               "create_product", "manage_own_profile"}],
    root     |-> [rank |-> 10, permissions |-> {"all"}] ]

Roles == DOMAIN rolesHierarchy

\* The role column of the users collection (role of req.user).
RoleOf(u) == CASE u \in {"u1", "u2"} -> "user"
               [] u = "d1" -> "delivery"
               [] u \in {"v1", "v2"} -> "vendor"
               [] u = "m1" -> "manager"
               [] OTHER    -> "ghost"

getRoleConfig(role) == IF role \in Roles THEN rolesHierarchy[role] ELSE Null

getRoleRank(role) ==
  LET config == getRoleConfig(role) IN
  IF config = Null THEN 0 ELSE config.rank

\* hasPermission without the 'all' wildcard (line 13).
hasPermissionNoWildcard(role, permission) ==
  LET config == getRoleConfig(role) IN
  IF config = Null THEN FALSE ELSE permission \in config.permissions

hasPermission(role, permission) ==
  LET config == getRoleConfig(role) IN
  IF config = Null THEN FALSE
  ELSE IF "all" \in config.permissions THEN TRUE
  ELSE permission \in config.permissions

hasAnyPermission(role, permissions) ==
  \E permission \in permissions : hasPermission(role, permission)

\* middleware/permissionMiddleware.js lines 11-23 on req.user.role: 0 stands
\* for next().
checkRole(role, requiredPermissions) ==
  IF getRoleConfig(role) = Null THEN 403
  ELSE IF hasAnyPermission(role, requiredPermissions) THEN 0
  ELSE 403

\* checkPermission(...requiredPermissions) on the request of user u.
checkPermission(u, requiredPermissions) == checkRole(RoleOf(u), requiredPermissions)

\* ------------------------------------------------- request bodies of POST /
Item   == [product : ProductIds, quantity : Qtys]
Bodies == UNION { [1..n -> Item] : n \in 1..MaxItems }

RECURSIVE SumQty(_, _, _)
\* Sum of the quantities of the items 1..n of items that name product p.
SumQty(items, p, n) ==
  IF n = 0 THEN 0
  ELSE SumQty(items, p, n - 1)
       + (IF items[n].product = p THEN items[n].quantity ELSE 0)

\* requestedQtyByProduct.set(key, item.quantity): the last item of p wins.
MergedQtyLast(items, p) ==
  LET idx == { i \in 1..Len(items) : items[i].product = p } IN
  IF idx = {} THEN 0
  ELSE items[CHOOSE i \in idx : \A j \in idx : j <= i].quantity

\* requestedQtyByProduct.get(p)
MergedQty(items, p) == SumQty(items, p, Len(items))

RECURSIVE KeysUpTo(_, _)
\* Keys of requestedQtyByProduct in insertion order (first occurrence).
KeysUpTo(items, n) ==
  IF n = 0 THEN << >>
  ELSE LET ks == KeysUpTo(items, n - 1) IN
       IF \E i \in 1..Len(ks) : ks[i] = items[n].product
       THEN ks ELSE Append(ks, items[n].product)

MergedKeys(items) == KeysUpTo(items, Len(items))

\* -------------------------------------------------------------------- state
VARIABLES
  stock,          \* products collection: committed stock of each document
  price,          \* products collection: committed price of each document
  orders,         \* orders collection: order id -> document (the id is the creating call)
  pc,             \* createOrder: where each request stands
  req,            \* createOrder: req.user._id and req.body.products
  snap,           \* transaction: the snapshot its reads see
  k,              \* createOrder: index of the next entry of requestedQtyByProduct
  txDec,          \* transaction: uncommitted $inc of each product's stock, negated
  wrote,          \* transaction: products it has written (it holds their write lock)
  stale,          \* transaction: products committed by others since its snapshot
  totalAmount,    \* createOrder line 70, declared outside the callback
  orderProducts,  \* createOrder line 71, declared outside the callback
  res,            \* createOrder: HTTP status sent, 0 before the response
  applied,        \* history: net stock each request has taken from the committed stock
  created,        \* history: the request's order document was committed
  undone,         \* history: the uncommitted decrements the request's abort discarded
  last,           \* history: the last response of a single-write handler
  users,          \* users collection: account id -> [role, name]
  gone,           \* products collection: the documents that were deleted
  nreq,           \* number of user-management requests answered
  password,       \* users collection: the stored (hashed) password of each account
  inflight,       \* updateUser / deleteUser between its findById and its write
  createdBy,      \* products collection: createdBy of each document
  updatedBy       \* products collection: updatedBy of each document

txVars   == << snap, k, txDec, wrote, stale >>
callVars == << pc, req, totalAmount, orderProducts, res >>
histVars == << applied, created, undone >>
vars     == << stock, price, orders, pc, req, snap, k, txDec, wrote, stale,
               totalAmount, orderProducts, res, applied, created, undone, last,
               users, gone, nreq, password, inflight, createdBy, updatedBy >>
userVars    == << users, nreq, password, inflight >>
ownerVars   == << createdBy, updatedBy >>
adminVars   == << users, gone, nreq, password, inflight, createdBy, updatedBy >>

ZeroDec == [p \in Products |-> 0]
NoLast  == [op |-> "none", by |-> "none", arg |-> "none", code |-> 0]

\* The accounts of the users collection and ids of no account.
Accounts   == {"r1", "r2", "a1", "m1", "m2"}
AccountIds == Accounts \cup {"ax"}       \* "ax": a well-formed id of no account

InitUsers ==
  [a \in Accounts |->
     [role |-> CASE a \in {"r1", "r2"} -> "root"
                 [] a = "a1" -> "admin"
                 [] OTHER -> "manager",
      name |-> "n0",
      email |-> a]]

\* The accounts of the integration test's set-up: no root among them.
StaffUsers == [a \in Accounts \ {"r1", "r2"} |-> InitUsers[a]]

\* Ids that POST /api/users gives to the accounts it creates.
Signups     == {"s1"}
AllAccounts == Accounts \cup Signups

\* bcryptjs.hash of the pre-save hook (models/User.js lines 52-61).
Hash(pw) == << "bcrypt", pw >>

\* No updateUser or deleteUser is between its read and its write.
NoFlight == [op |-> "none", by |-> "none", role |-> "none", target |-> "none",
             patch |-> [role |-> "<absent>", name |-> "<absent>"]]

\* JSON null in place of an id.
NullId == "<null>"

\* Product.createdBy, set by createProduct from req.user._id.
CreatedBy(p) == IF p = "p2" THEN "v1" ELSE "m1"

\* Order schema default of status (models/Order.js).
DefaultStatus == "pending"

InitRest ==
  /\ orders = << >>
  /\ pc = [c \in Calls |-> "idle"]
  /\ req = [c \in Calls |-> Null]
  /\ snap = [c \in Calls |-> Null]
  /\ k = [c \in Calls |-> 0]
  /\ txDec = [c \in Calls |-> ZeroDec]
  /\ wrote = [c \in Calls |-> {}]
  /\ stale = [c \in Calls |-> {}]
  /\ totalAmount = [c \in Calls |-> 0]
  /\ orderProducts = [c \in Calls |-> << >>]
  /\ res = [c \in Calls |-> 0]
  /\ applied = [c \in Calls |-> ZeroDec]
  /\ created = [c \in Calls |-> FALSE]
  /\ undone = [c \in Calls |-> ZeroDec]
  /\ last = NoLast
  /\ gone = {}
  /\ nreq = 0
  /\ password = [a \in AllAccounts |-> Hash("secret0")]
  /\ inflight = NoFlight
  /\ createdBy = [p \in Products |-> CreatedBy(p)]
  /\ updatedBy = [p \in Products |-> CreatedBy(p)]

InitCalls ==
  /\ InitRest
  /\ users = InitUsers

Init ==
  /\ stock = [p \in Products |-> MaxStock]
  /\ price = [p \in Products |-> 1]
  /\ InitCalls

\* ------------------------------------------------ transactions (MongoDB)
InTx(c) == pc[c] = "loop"

\* No conflict detection: the decrements run outside any transaction.
NoWriteConflict(c, p) == FALSE

\* A write of product p by the transaction of c conflicts when another
\* transaction holds an uncommitted write of p, or p was committed after the
\* snapshot of c.
WriteConflict(c, p) ==
  \/ p \in stale[c]
  \/ \E d \in Calls \ {c} : p \in wrote[d]

\* A write outside a transaction waits for the transaction that wrote p.
Locked(p) == \E d \in Calls : p \in wrote[d]

\* Committed stock once the transaction of c commits.
CommitStock(c) == [p \in Products |-> stock[p] - txDec[c][p]]

\* The decrements already applied stay when the request fails.
AbortStockKept(c) == CommitStock(c)

\* Committed stock once the transaction of c aborts: its writes are discarded.
AbortStock(c) == stock

\* Every open transaction other than c sees the products in ps as changed.
Invalidate(c, ps) ==
  [d \in Calls |-> IF d # c /\ InTx(d) THEN stale[d] \cup ps ELSE stale[d]]

EndTx(c) ==
  /\ snap' = [snap EXCEPT ![c] = Null]
  /\ k' = [k EXCEPT ![c] = 0]
  /\ txDec' = [txDec EXCEPT ![c] = ZeroDec]
  /\ wrote' = [wrote EXCEPT ![c] = {}]

\* history: what the step of c took from the committed stock
Account(c) ==
  applied' = [applied EXCEPT ![c] = [p \in Products |-> @[p] + stock[p] - stock'[p]]]

\* ------------------------------------------------------------ createOrder
\* POST /api/orders: authMiddleware, checkPermission('place_orders'),
\* then createOrder up to session.withTransaction.
StartOrder(c, u, body) ==
  /\ pc[c] = "idle"
  /\ \A d \in Calls : d < c => pc[d] # "idle"
  /\ IF checkPermission(u, {"place_orders"}) # 0
     THEN /\ pc' = [pc EXCEPT ![c] = "done"]
          /\ res' = [res EXCEPT ![c] = 403]
          /\ UNCHANGED << req, totalAmount, orderProducts >>
     ELSE /\ pc' = [pc EXCEPT ![c] = "callback"]
          /\ req' = [req EXCEPT ![c] = [user |-> u, products |-> body]]
          /\ totalAmount' = [totalAmount EXCEPT ![c] = 0]
          /\ orderProducts' = [orderProducts EXCEPT ![c] = << >>]
          /\ UNCHANGED res
  /\ UNCHANGED << stock, price, orders, txVars, histVars, last >>

\* The callback starts (again): requestedQtyByProduct is built and
\* Product.find opens the snapshot.
Callback(c) ==
  /\ pc[c] = "callback"
  /\ pc' = [pc EXCEPT ![c] = "loop"]
  /\ snap' = [snap EXCEPT ![c] = [stock |-> stock, price |-> price]]
  /\ k' = [k EXCEPT ![c] = 1]
  /\ txDec' = [txDec EXCEPT ![c] = ZeroDec]
  /\ wrote' = [wrote EXCEPT ![c] = {}]
  /\ stale' = [stale EXCEPT ![c] = {}]
  /\ UNCHANGED << stock, price, orders, req, totalAmount, orderProducts, res,
                  histVars, last >>

\* The callback throws an error with the given status: the transaction
\* aborts and the catch block answers.
Throw(c, code) ==
  /\ stock' = AbortStock(c)
  /\ Account(c)
  /\ pc' = [pc EXCEPT ![c] = "done"]
  /\ res' = [res EXCEPT ![c] = code]
  /\ req' = [req EXCEPT ![c] = Null]
  /\ totalAmount' = [totalAmount EXCEPT ![c] = 0]
  /\ orderProducts' = [orderProducts EXCEPT ![c] = << >>]
  /\ EndTx(c)
  /\ stale' = [stale EXCEPT ![c] = {}]
  /\ undone' = [undone EXCEPT ![c] = txDec[c]]
  /\ UNCHANGED << price, orders, created, last >>

\* A transient transaction error: withTransaction aborts and calls the
\* callback again; totalAmount and orderProducts live outside it.
Retry(c) ==
  /\ stock' = AbortStock(c)
  /\ Account(c)
  /\ pc' = [pc EXCEPT ![c] = "callback"]
  /\ EndTx(c)
  /\ stale' = [stale EXCEPT ![c] = {}]
  /\ UNCHANGED << price, orders, req, totalAmount, orderProducts, res, created, undone, last >>

\* An unconditional decrement: the filter is { _id: productId } alone.
StockFilterOff(c, p, qty) == TRUE

\* The filter of the conditional decrement, on the transaction's snapshot.
StockFilter(c, p, qty) == snap[c].stock[p] >= qty

\* One pass of the loop over requestedQtyByProduct.entries() (lines 85-102).
Decrement(c) ==
  /\ pc[c] = "loop"
  /\ k[c] <= Len(MergedKeys(req[c].products))
  /\ LET p   == MergedKeys(req[c].products)[k[c]]
         qty == MergedQty(req[c].products, p)
     IN  IF p \notin Products THEN Throw(c, 404)
         ELSE IF ~StockFilter(c, p, qty) THEN Throw(c, 409)
         ELSE IF WriteConflict(c, p) THEN Retry(c)
         ELSE /\ txDec' = [txDec EXCEPT ![c][p] = qty]
              /\ wrote' = [wrote EXCEPT ![c] = @ \cup {p}]
              /\ k' = [k EXCEPT ![c] = @ + 1]
              /\ UNCHANGED << stock, price, orders, callVars, snap, stale,
                              histVars, last >>

RECURSIVE LineTotal(_, _, _)
\* totalAmount after the items 1..n (line 106), prices from productMap
LineTotal(items, prices, n) ==
  IF n = 0 THEN 0
  ELSE LineTotal(items, prices, n - 1) + prices[items[n].product] * items[n].quantity

\* orderProducts.push of every item (lines 107-111)
Lines(items, prices) ==
  [i \in 1..Len(items) |-> [product  |-> items[i].product,
                            quantity |-> items[i].quantity,
                            price    |-> prices[items[i].product]]]

\* Lines 104-121: the order document is built and created, the callback
\* returns and withTransaction commits.  ok: Order.create accepts the document
\* (models/Order.js validates it); otherwise it throws a validation error.
CreateOrder(c, ok) ==
  /\ pc[c] = "loop"
  /\ k[c] > Len(MergedKeys(req[c].products))
  /\ LET items == req[c].products
         total == totalAmount[c] + LineTotal(items, snap[c].price, Len(items))
         lines == orderProducts[c] \o Lines(items, snap[c].price)
     IN  IF ~ok THEN Throw(c, 400)
         ELSE /\ stock' = CommitStock(c)
              /\ Account(c)
              /\ orders' = (c :> [user |-> req[c].user, products |-> lines,
                                  totalAmount |-> total, status |-> DefaultStatus])
                           @@ orders
              /\ created' = [created EXCEPT ![c] = TRUE]
              /\ stale' = [Invalidate(c, wrote[c]) EXCEPT ![c] = {}]
              /\ pc' = [pc EXCEPT ![c] = "fetch"]
              /\ req' = [req EXCEPT ![c] = Null]
              /\ totalAmount' = [totalAmount EXCEPT ![c] = 0]
              /\ orderProducts' = [orderProducts EXCEPT ![c] = << >>]
              /\ EndTx(c)
              /\ UNCHANGED << price, res, undone, last >>

\* Lines 123-131: Order.findById(createdOrderId), populate, 201; populate of
\* null throws and the catch block answers 400.
FetchOrder(c) ==
  /\ pc[c] = "fetch"
  /\ pc' = [pc EXCEPT ![c] = "done"]
  /\ res' = [res EXCEPT ![c] = IF c \in DOMAIN orders THEN 201 ELSE 400]
  /\ UNCHANGED << stock, price, orders, req, totalAmount, orderProducts, txVars,
                  histVars, last >>

\* ------------------------------------------------------ single-write handlers
validStatuses == {"pending", "processing", "shipped", "delivered", "cancelled"}
Statuses      == validStatuses \cup {"refunded"}    \* "refunded": some other string
OrderIds      == Calls \cup {0}                     \* 0: a well-formed id of no order

\* PUT /api/products/:id bodies: one field each.
ProductPatches ==
  [field : {"price"}, value : Prices] \cup [field : {"stock"}, value : (0 - 1)..MaxStock]

\* Bodies that carry createdBy: null, the empty string, another user's id.
OwnerPatches == [field : {"createdBy"}, value : {NullId, "", "v2"}]

\* Product.findByIdAndUpdate(..., { runValidators: true }) on createdBy: ''
\* is no ObjectId (cast error); null passes unless the path is required
\* (models/Product.js decides: ownerRequired).
SchemaAcceptsOwner(patch, ownerRequired) ==
  (patch.field = "createdBy" /\ patch.value \in {NullId, ""}) =>
     (patch.value = NullId /\ ~ownerRequired)

\* createdBy of the document after lines 83-86: if (req.body.createdBy)
\* deletes the key unless the value is falsy (null, '').
OwnerAfter(owner, patch) ==
  IF patch.field = "createdBy" /\ patch.value \in {NullId, ""} THEN patch.value ELSE owner

\* The validator's tests of price and stock (lines 102-107).
BadNumber(patch) == patch.field \in {"price", "stock"} /\ patch.value < 0

\* updateProduct without the ownership test (lines 75-80).
updateProductCodeNoOwner(u, p, patch, ownerRequired) ==
  IF BadNumber(patch) THEN 400
  ELSE IF checkPermission(u, {"manage_products", "manage_own_products"}) # 0 THEN 403
  ELSE IF p \notin Products \ gone THEN 404
  ELSE 200

\* validateUpdateProductBody, then checkPermission, then updateProduct.
\* product.createdBy.toString() of a null createdBy throws (catch: 400).
updateProductCode(u, p, patch, ownerRequired) ==
  IF BadNumber(patch) THEN 400
  ELSE IF checkPermission(u, {"manage_products", "manage_own_products"}) # 0 THEN 403
  ELSE IF p \notin Products \ gone THEN 404
  ELSE IF createdBy[p] = NullId THEN 400
  ELSE IF createdBy[p] # u /\ ~hasPermission(RoleOf(u), "manage_products") THEN 403
  ELSE IF ~SchemaAcceptsOwner(patch, ownerRequired) THEN 400
  ELSE 200

\* deleteOrder that returns the order's quantities to the stock.
StockAfterDeleteOrderRestock(o) ==
  [p \in Products |-> stock[p] + MergedQty([i \in 1..Len(orders[o].products) |->
                                             [product  |-> orders[o].products[i].product,
                                              quantity |-> orders[o].products[i].quantity]], p)]

\* Stock of the products after an order document is deleted.
StockAfterDeleteOrder(o) == stock

updateProduct(u, p, patch, ownerRequired) ==
  /\ p \in Products => ~Locked(p)
  /\ IF updateProductCode(u, p, patch, ownerRequired) = 200
     THEN /\ stock' = IF patch.field = "stock" THEN [stock EXCEPT ![p] = patch.value] ELSE stock
          /\ price' = IF patch.field = "price" THEN [price EXCEPT ![p] = patch.value] ELSE price
          /\ createdBy' = [createdBy EXCEPT ![p] = OwnerAfter(@, patch)]
          /\ updatedBy' = [updatedBy EXCEPT ![p] = u]
          /\ stale' = Invalidate(0, {p})
     ELSE UNCHANGED << stock, price, createdBy, updatedBy, stale >>
  /\ UNCHANGED << orders, callVars, snap, k, txDec, wrote, histVars, gone >>

\* checkPermission('manage_products', 'manage_own_products'), then
\* deleteProduct.
deleteProductCode(u, p) ==
  IF checkPermission(u, {"manage_products", "manage_own_products"}) # 0 THEN 403
  ELSE IF p \notin Products \ gone THEN 404
  ELSE IF createdBy[p] = NullId THEN 500
  ELSE IF createdBy[p] # u /\ ~hasPermission(RoleOf(u), "manage_products") THEN 403
  ELSE 200

deleteProduct(u, p) ==
  /\ p \in Products => ~Locked(p)
  /\ IF deleteProductCode(u, p) = 200
     THEN /\ gone' = gone \cup {p}
          /\ stale' = Invalidate(0, {p})
     ELSE UNCHANGED << gone, stale >>
  /\ UNCHANGED << stock, price, orders, callVars, snap, k, txDec, wrote, histVars, ownerVars >>

\* PUT /api/orders/:id bodies: the fields this model patches.
OrderPatches == [field : {"totalAmount"}, value : 0..MaxPrice]

\* checkPermission('manage_orders'), then updateOrder.
updateOrderCode(u, o, patch) ==
  IF checkPermission(u, {"manage_orders"}) # 0 THEN 403
  ELSE IF o \notin DOMAIN orders THEN 404
  ELSE IF ~hasPermission(RoleOf(u), "manage_orders") THEN 403
  ELSE 200

updateOrder(u, o, patch) ==
  /\ orders' = IF updateOrderCode(u, o, patch) = 200
               THEN [orders EXCEPT ![o].totalAmount = patch.value]
               ELSE orders
  /\ UNCHANGED << stock, price, callVars, txVars, histVars >>

\* checkPermission('manage_orders', 'place_orders'), then deleteOrder.
deleteOrderCode(u, o) ==
  IF checkPermission(u, {"manage_orders", "place_orders"}) # 0 THEN 403
  ELSE IF o \notin DOMAIN orders THEN 404
  ELSE IF ~hasPermission(RoleOf(u), "manage_orders") /\ orders[o].user # u THEN 403
  ELSE 200

deleteOrder(u, o) ==
  /\ IF deleteOrderCode(u, o) = 200
     THEN /\ orders' = [i \in DOMAIN orders \ {o} |-> orders[i]]
          /\ stock' = StockAfterDeleteOrder(o)
     ELSE UNCHANGED << orders, stock >>
  /\ UNCHANGED << price, callVars, txVars, histVars >>

\* updateOrderStatus without the delivery restriction (lines 223-229).
updateOrderStatusCodeAnyRole(u, o, status) ==
  IF checkPermission(u, {"update_order_status", "manage_orders"}) # 0 THEN 403
  ELSE IF status \notin validStatuses THEN 400
  ELSE IF o \notin DOMAIN orders THEN 404
  ELSE 200

\* updateOrderStatus without the validStatuses test (lines 219-221).
updateOrderStatusCodeAnyStatus(u, o, status) ==
  IF checkPermission(u, {"update_order_status", "manage_orders"}) # 0 THEN 403
  ELSE IF RoleOf(u) = "delivery" /\ status # "delivered" THEN 403
  ELSE IF o \notin DOMAIN orders THEN 404
  ELSE 200

\* Position of a status in the order's life; cancelled ends it.
StatusStage(status) ==
  CASE status = "pending" -> 1
    [] status = "processing" -> 2
    [] status = "shipped" -> 3
    [] status = "delivered" -> 4
    [] OTHER -> 5

\* updateOrderStatus that only lets an order advance.
updateOrderStatusCodeForwardOnly(u, o, status) ==
  IF checkPermission(u, {"update_order_status", "manage_orders"}) # 0 THEN 403
  ELSE IF status \notin validStatuses THEN 400
  ELSE IF RoleOf(u) = "delivery" /\ status # "delivered" THEN 403
  ELSE IF o \notin DOMAIN orders THEN 404
  ELSE IF StatusStage(status) < StatusStage(orders[o].status) THEN 400
  ELSE 200

\* checkPermission('update_order_status', 'manage_orders'), then
\* updateOrderStatus.
updateOrderStatusCode(u, o, status) ==
  IF checkPermission(u, {"update_order_status", "manage_orders"}) # 0 THEN 403
  ELSE IF status \notin validStatuses THEN 400
  ELSE IF RoleOf(u) = "delivery" /\ status # "delivered" THEN 403
  ELSE IF o \notin DOMAIN orders THEN 404
  ELSE 200

updateOrderStatus(u, o, status) ==
  /\ orders' = IF updateOrderStatusCode(u, o, status) = 200
               THEN [orders EXCEPT ![o].status = status]
               ELSE orders
  /\ UNCHANGED << stock, price, callVars, txVars, histVars >>

\* getAllOrders lines 10-11: the ids Order.find(filter) returns to u.
OrdersFilter(u) ==
  IF hasAnyPermission(RoleOf(u), {"read_orders", "manage_orders"})
  THEN DOMAIN orders
  ELSE { o \in DOMAIN orders : orders[o].user = u }

\* checkPermission(...), then getAllOrders.
getAllOrdersCode(u) ==
  IF checkPermission(u, {"read_orders", "read_assigned_orders", "read_own_orders",
                         "place_orders", "manage_orders"}) # 0 THEN 403
  ELSE 200

\* getOrderById without the ownership test (lines 43-49).
getOrderByIdCodeNoOwner(u, o) ==
  IF checkPermission(u, {"read_orders", "read_own_orders", "place_orders",
                         "manage_orders"}) # 0 THEN 403
  ELSE IF o \notin DOMAIN orders THEN 404
  ELSE 200

\* checkPermission(...), then getOrderById.
getOrderByIdCode(u, o) ==
  IF checkPermission(u, {"read_orders", "read_own_orders", "place_orders",
                         "manage_orders"}) # 0 THEN 403
  ELSE IF o \notin DOMAIN orders THEN 404
  ELSE IF ~hasAnyPermission(RoleOf(u), {"read_orders", "manage_orders"}) /\ orders[o].user # u
    THEN 403
  ELSE 200

Answered(op, u, arg, code) == last' = [op |-> op, by |-> u, arg |-> arg, code |-> code]

\* ------------------------------------------------- user management handlers
\* models/User.js: the enum of the role path.
userRoleEnum == {"user", "support", "delivery", "vendor", "marketing", "sales",
                 "manager", "editor", "admin", "superuser", "root"}

Absent   == "<absent>"      \* the body has no such key
NullRole == "<null>"        \* JSON null

\* PUT /api/users/:id bodies: the keys role and name, each present or not.
PatchRoles  == {Absent, NullRole, "", "ghost", "user", "manager", "admin", "root"}
PatchNames  == {Absent, "n1"}
UserPatches == [role : PatchRoles, name : PatchNames]

\* if (req.body.role): undefined, null and '' are falsy.
Truthy(v) == v \notin {Absent, NullRole, ""}

\* User.findByIdAndUpdate(..., { runValidators: true }) on the role path: a
\* string must be one of the enum; whether null passes the enum validator of
\* a path that is not required depends on the Mongoose release (nullOk).
SchemaAcceptsRole(v, nullOk) ==
  IF v = Absent THEN TRUE
  ELSE IF v = NullRole THEN nullOk
  ELSE v \in userRoleEnum

\* Line 128 with < in place of <=.
BlockedByLevelStrict(isOwner, myLevel, targetLevel) == ~isOwner /\ myLevel < targetLevel

\* updateUser line 128.
BlockedByLevel(isOwner, myLevel, targetLevel) == ~isOwner /\ myLevel <= targetLevel

\* Lines 149-154 left out.
BlocksOwnRoleOff(isOwner) == FALSE

\* updateUser line 149.
BlocksOwnRole(isOwner) == isOwner

\* updateUser without the rank test of line 157.
roleBlockCodeNoRank(myRole, isOwner, newRole) ==
  IF ~Truthy(newRole) THEN 0
  ELSE IF ~hasPermission(myRole, "assign_roles") THEN 403
  ELSE IF getRoleRank(newRole) = 0 THEN 400
  ELSE IF BlocksOwnRole(isOwner) THEN 403
  ELSE 0

\* updateUser lines 135-163: 0 when the role block lets the request through.
roleBlockCode(myRole, isOwner, newRole) ==
  IF ~Truthy(newRole) THEN 0
  ELSE IF ~hasPermission(myRole, "assign_roles") THEN 403
  ELSE IF getRoleRank(newRole) = 0 THEN 400
  ELSE IF BlocksOwnRole(isOwner) THEN 403
  ELSE IF getRoleRank(myRole) <= getRoleRank(newRole) /\ ~hasPermission(myRole, "all") THEN 403
  ELSE 0

\* authMiddleware, validateUpdateUserBody, checkPermission, then updateUser.
updateUserCode(actor, target, patch, nullOk) ==
  IF actor \notin DOMAIN users THEN 401
  ELSE IF patch.role = Absent /\ patch.name = Absent THEN 400
  ELSE IF checkRole(users[actor].role, {"manage_own_profile", "manage_users", "assign_roles"}) # 0
    THEN 403
  ELSE IF target \notin DOMAIN users THEN 404
  ELSE IF BlockedByLevel(actor = target, getRoleRank(users[actor].role),
                         getRoleRank(users[target].role)) THEN 403
  ELSE IF roleBlockCode(users[actor].role, actor = target, patch.role) # 0
    THEN roleBlockCode(users[actor].role, actor = target, patch.role)
  ELSE IF ~SchemaAcceptsRole(patch.role, nullOk) THEN 400
  ELSE 200

Patched(doc, patch) ==
  [role |-> IF patch.role = Absent THEN doc.role ELSE patch.role,
   name |-> IF patch.name = Absent THEN doc.name ELSE patch.name,
   email |-> doc.email]

updateUser(actor, target, patch, nullOk) ==
  /\ nreq < MaxReqs
  /\ nreq' = nreq + 1
  /\ users' = IF updateUserCode(actor, target, patch, nullOk) = 200
              THEN [users EXCEPT ![target] = Patched(@, patch)]
              ELSE users
  /\ Answered("updateUser", actor, [target |-> target, patch |-> patch],
              updateUserCode(actor, target, patch, nullOk))
  /\ UNCHANGED << stock, price, orders, callVars, txVars, histVars, gone,
                  password, inflight, ownerVars >>

\* Line 231 with < in place of <=.
DeleteBlockedStrict(myRole, targetRole) ==
  getRoleRank(myRole) < getRoleRank(targetRole) /\ ~hasPermission(myRole, "all")

\* deleteUser line 231.
DeleteBlocked(myRole, targetRole) ==
  getRoleRank(myRole) <= getRoleRank(targetRole) /\ ~hasPermission(myRole, "all")

\* authMiddleware, checkPermission('manage_users'), then deleteUser.
deleteUserCode(actor, target) ==
  IF actor \notin DOMAIN users THEN 401
  ELSE IF checkRole(users[actor].role, {"manage_users"}) # 0 THEN 403
  ELSE IF target \notin DOMAIN users THEN 404
  ELSE IF DeleteBlocked(users[actor].role, users[target].role) THEN 403
  ELSE 200

deleteUser(actor, target) ==
  /\ nreq < MaxReqs
  /\ nreq' = nreq + 1
  /\ users' = IF deleteUserCode(actor, target) = 200
              THEN [a \in DOMAIN users \ {target} |-> users[a]]
              ELSE users
  /\ Answered("deleteUser", actor, [target |-> target], deleteUserCode(actor, target))
  /\ UNCHANGED << stock, price, orders, callVars, txVars, histVars, gone,
                  password, inflight, ownerVars >>

\* value.length of the passwords of the request bodies.
StringLength(v) == IF v = "short" THEN 5 ELSE 7

\* isNonEmptyString (part_005 line 24).
isNonEmptyString(v) == v \notin {Absent, ""}

\* updateUser up to its findByIdAndUpdate (lines 110-170), for a request that
\* passes every test: the write is still to come.
BeginUpdate(actor, target, patch, nullOk) ==
  /\ inflight = NoFlight
  /\ nreq < MaxReqs
  /\ updateUserCode(actor, target, patch, nullOk) = 200
  /\ inflight' = [op |-> "updateUser", by |-> actor, role |-> users[actor].role,
                  target |-> target, patch |-> patch]
  /\ UNCHANGED << stock, price, orders, callVars, txVars, histVars, gone, last,
                  users, nreq, password, ownerVars >>

\* deleteUser up to its findByIdAndDelete (lines 219-236).
BeginDelete(actor, target) ==
  /\ inflight = NoFlight
  /\ nreq < MaxReqs
  /\ deleteUserCode(actor, target) = 200
  /\ inflight' = [NoFlight EXCEPT !.op = "deleteUser", !.by = actor,
                                  !.role = users[actor].role, !.target = target]
  /\ UNCHANGED << stock, price, orders, callVars, txVars, histVars, gone, last,
                  users, nreq, password, ownerVars >>

\* The users collection after the write of the request in flight:
\* findByIdAndUpdate (lines 172-176) or findByIdAndDelete (line 238), which
\* do nothing when the document is gone.
UsersAfterWrite(f) ==
  IF f.target \notin DOMAIN users THEN users
  ELSE IF f.op = "updateUser" THEN [users EXCEPT ![f.target] = Patched(@, f.patch)]
  ELSE [a \in DOMAIN users \ {f.target} |-> users[a]]

\* The write of the request in flight and its response (lines 172-182,
\* 238-239).
WriteUser ==
  /\ inflight # NoFlight
  /\ users' = UsersAfterWrite(inflight)
  /\ inflight' = NoFlight
  /\ nreq' = nreq + 1
  /\ Answered(IF inflight.op = "updateUser" THEN "updateUserWrite" ELSE "deleteUserWrite",
              inflight.by, [target |-> inflight.target, patch |-> inflight.patch], 200)
  /\ UNCHANGED << stock, price, orders, callVars, txVars, histVars, gone,
                  password, ownerVars >>

\* POST /api/users bodies; role is a key the handler does not read.
SignupBodies == [role : {Absent, "root"}, name : {"n1"}, email : {"s1", "a1"},
                 password : {"secret1", "short"}]

\* validateCreateUserBody, then createUser.
createUserCode(body) ==
  IF ~isNonEmptyString(body.name) \/ ~isNonEmptyString(body.email) THEN 400
  ELSE IF ~isNonEmptyString(body.password) \/ StringLength(body.password) < 6 THEN 400
  ELSE IF \E a \in DOMAIN users : users[a].email = body.email THEN 400
  ELSE 201

\* id: the _id the new document gets.
createUser(id, body) ==
  /\ id \notin DOMAIN users
  /\ IF createUserCode(body) = 201
     THEN /\ users' = (id :> [role |-> "user", name |-> body.name, email |-> body.email])
                      @@ users
          /\ password' = [password EXCEPT ![id] = Hash(body.password)]
     ELSE UNCHANGED << users, password >>
  /\ Answered("createUser", "none", [id |-> id, body |-> body], createUserCode(body))
  /\ UNCHANGED << stock, price, orders, callVars, txVars, histVars, gone,
                  nreq, inflight, ownerVars >>

\* POST /api/users/update-password/:id bodies.
PasswordBodies == [currentPassword : {Absent, "secret0", "wrong00"},
                   newPassword : {"secret1", "short"}]

\* validatePasswordUpdateBody: 0 when the body passes.
validatePasswordUpdateBody(actor, target, body) ==
  IF ~isNonEmptyString(body.newPassword) \/ StringLength(body.newPassword) < 6 THEN 400
  ELSE IF actor = target /\ ~isNonEmptyString(body.currentPassword) THEN 400
  ELSE 0

\* authMiddleware, validatePasswordUpdateBody, checkPermission, then
\* simplePasswordUpdate.
simplePasswordUpdateCode(actor, target, body) ==
  IF actor \notin DOMAIN users THEN 401
  ELSE IF validatePasswordUpdateBody(actor, target, body) # 0 THEN 400
  ELSE IF checkRole(users[actor].role, {"manage_own_profile", "manage_users"}) # 0 THEN 403
  ELSE IF actor # target /\ users[actor].role \notin {"admin", "superuser", "root"} THEN 403
  ELSE IF target \notin DOMAIN users THEN 404
  ELSE 200

simplePasswordUpdate(actor, target, body) ==
  /\ nreq < MaxReqs
  /\ nreq' = nreq + 1
  /\ password' = IF simplePasswordUpdateCode(actor, target, body) = 200
                 THEN [password EXCEPT ![target] = Hash(body.newPassword)]
                 ELSE password
  /\ Answered("simplePasswordUpdate", actor, [target |-> target, body |-> body],
              simplePasswordUpdateCode(actor, target, body))
  /\ UNCHANGED << stock, price, orders, callVars, txVars, histVars, gone,
                  users, inflight, ownerVars >>

\* Lines 104-121 when Order.create or the commit fails with a transient
\* transaction error: the loop of lines 104-112 has added to totalAmount and
\* orderProducts, the transaction aborts and withTransaction calls the
\* callback again.
CommitFails(c) ==
  /\ pc[c] = "loop"
  /\ k[c] > Len(MergedKeys(req[c].products))
  /\ Len(orderProducts[c]) < MaxFaults * Len(req[c].products)
  /\ LET items == req[c].products
     IN  /\ totalAmount' = [totalAmount EXCEPT
                              ![c] = @ + LineTotal(items, snap[c].price, Len(items))]
         /\ orderProducts' = [orderProducts EXCEPT ![c] = @ \o Lines(items, snap[c].price)]
  /\ stock' = AbortStock(c)
  /\ Account(c)
  /\ pc' = [pc EXCEPT ![c] = "callback"]
  /\ EndTx(c)
  /\ stale' = [stale EXCEPT ![c] = {}]
  /\ UNCHANGED << price, orders, req, res, created, undone, last >>

\* withTransaction that retries a conflicting callback without any limit.
RetryNeverExpires(c, p) == FALSE

\* withTransaction retries the callback only within its time limit: at a
\* write conflict met after the limit it rethrows the error instead.
RetryExpired(c, p) == WriteConflict(c, p)

\* The write conflict is rethrown to the catch block (lines 132-136), which
\* answers error.statusCode || 400.
GiveUp(c) ==
  /\ pc[c] = "loop"
  /\ k[c] <= Len(MergedKeys(req[c].products))
  /\ LET p   == MergedKeys(req[c].products)[k[c]]
         qty == MergedQty(req[c].products, p)
     IN  /\ p \in Products
         /\ StockFilter(c, p, qty)
         /\ RetryExpired(c, p)
  /\ Throw(c, 400)

\* ------------------------------------------------------------ specifications
\* Request bodies validateCreateOrderBody would accept.
ValidBodies == { b \in Bodies : \A i \in 1..Len(b) : b[i].quantity >= 1 }

TxStep(c) == Callback(c) \/ Decrement(c) \/ FetchOrder(c)

PlaceOrderStep ==
  \E c \in Calls :
    (TxStep(c) \/ \E ok \in BOOLEAN : CreateOrder(c, ok)) /\ UNCHANGED adminVars

StartStep ==
  \E c \in BusyCalls, u \in Users, body \in Bodies :
    StartOrder(c, u, body) /\ UNCHANGED adminVars

DeleteOrderStep ==
  \E u \in Users, o \in OrderIds :
    deleteOrder(u, o) /\ UNCHANGED last /\ UNCHANGED adminVars

\* Order placement with arbitrary request bodies, beside order deletion.
Next ==
  \/ StartStep
  \/ PlaceOrderStep
  \/ DeleteOrderStep

Spec == Init /\ [][Next]_vars

UpdateProductStep ==
  \E u \in Users, p \in ProductIds, patch \in ProductPatches, ownerRequired \in BOOLEAN :
    updateProduct(u, p, patch, ownerRequired) /\ UNCHANGED last /\ UNCHANGED userVars

UpdateOrderStep ==
  \E u \in Users, o \in OrderIds, patch \in OrderPatches :
    updateOrder(u, o, patch) /\ UNCHANGED last /\ UNCHANGED adminVars

ShipStep ==
  \E u \in Users, o \in OrderIds, status \in {"shipped", "refunded"} :
    updateOrderStatus(u, o, status) /\ UNCHANGED last /\ UNCHANGED adminVars

\* Every handler that writes products or orders, on well-formed requests.
StartOpsStep ==
  \E c \in OpsCalls, u \in Users, body \in ValidBodies :
    StartOrder(c, u, body) /\ UNCHANGED adminVars

NextOps ==
  \/ StartOpsStep
  \/ PlaceOrderStep
  \/ UpdateProductStep
  \/ UpdateOrderStep
  \/ DeleteOrderStep
  \/ ShipStep

SpecOps == Init /\ [][NextOps]_vars

\* PUT /api/orders/:id/status and its response.
SetStatus(u, o, status) ==
  /\ updateOrderStatus(u, o, status)
  /\ Answered("updateOrderStatus", u, status, updateOrderStatusCode(u, o, status))
  /\ UNCHANGED adminVars

SetStatusStep ==
  \E u \in Users, o \in OrderIds, status \in Statuses : SetStatus(u, o, status)

\* Order status changes on the orders that well-formed requests created.
NextStatus ==
  \/ StartOpsStep
  \/ PlaceOrderStep
  \/ SetStatusStep

SpecStatus == Init /\ [][NextStatus]_vars

CommitFailsStep == \E c \in Calls : CommitFails(c) /\ UNCHANGED adminVars

\* POST /api/orders by one user, with bodies the validator accepts.
StartLiveStep ==
  \E c \in BusyCalls, body \in ValidBodies :
    StartOrder(c, "u1", body) /\ UNCHANGED adminVars

\* Order placement whose commit may fail transiently and be run again.
NextFaults ==
  \/ StartLiveStep
  \/ PlaceOrderStep
  \/ CommitFailsStep

SpecFaults == Init /\ [][NextFaults]_vars

CallStep(c) ==
  (TxStep(c) \/ \E ok \in BOOLEAN : CreateOrder(c, ok)) /\ UNCHANGED adminVars

GiveUpStep(c) == GiveUp(c) /\ UNCHANGED adminVars

\* Concurrent order placement up to the response of every request.
NextLive ==
  \/ StartLiveStep
  \/ \E c \in Calls : CallStep(c)
  \/ \E c \in Calls : GiveUpStep(c)

\* Every request that entered the handler keeps running (the event loop
\* resumes each pending await), and a request that keeps meeting write
\* conflicts runs past the time limit of withTransaction.
SpecLive ==
  /\ Init /\ [][NextLive]_vars
  /\ \A c \in Calls : WF_vars(CallStep(c)) /\ SF_vars(GiveUpStep(c))

\* PUT /api/orders/:id/status, its response and the status it found.
MoveStatus(u, o, status) ==
  /\ updateOrderStatus(u, o, status)
  /\ Answered("moveStatus", u,
              [order |-> o, to |-> status,
               from |-> IF o \in DOMAIN orders THEN orders[o].status ELSE "none"],
              updateOrderStatusCode(u, o, status))
  /\ UNCHANGED adminVars

\* Status changes in any direction on the orders that requests created.
NextMoves ==
  \/ StartOpsStep
  \/ PlaceOrderStep
  \/ \E u \in Users, o \in OrderIds, status \in Statuses : MoveStatus(u, o, status)

SpecMoves == Init /\ [][NextMoves]_vars

\* N requests by the same customer, each for one unit of p1, of which one is
\* in stock; the other product and the prices are arbitrary.
InitRace ==
  /\ stock \in { f \in [Products -> 0..MaxStock] : f["p1"] = 1 }
  /\ price \in [Products -> Prices]
  /\ InitCalls

RaceBody == << [product |-> "p1", quantity |-> 1] >>

StartRaceStep == \E c \in Calls : StartOrder(c, "u1", RaceBody) /\ UNCHANGED adminVars

RaceStep == \E c \in Calls : (TxStep(c) \/ CreateOrder(c, TRUE)) /\ UNCHANGED adminVars

NextRace ==
  \/ StartRaceStep
  \/ RaceStep

SpecRace == InitRace /\ [][NextRace]_vars

\* PUT /api/users/:id and DELETE /api/users/:id.
UpdateUserStep ==
  \E actor \in AccountIds, target \in AccountIds, patch \in UserPatches, nullOk \in BOOLEAN :
    updateUser(actor, target, patch, nullOk)

DeleteUserStep ==
  \E actor \in AccountIds, target \in AccountIds : deleteUser(actor, target)

NextUsers ==
  \/ UpdateUserStep
  \/ DeleteUserStep

SpecUsers == Init /\ [][NextUsers]_vars

\* Password changes (POST /api/users/update-password/:id), beside account
\* deletions.
NextPasswords ==
  \/ \E actor \in AccountIds, target \in AccountIds, body \in PasswordBodies :
       simplePasswordUpdate(actor, target, body)
  \/ DeleteUserStep

SpecPasswords == Init /\ [][NextPasswords]_vars

\* Concurrent user management: a request of the admin or of a manager stands
\* between its read and its write while requests of a root account are
\* served.
NextUserRace ==
  \/ \E actor \in {"a1", "m1"}, target \in Accounts, patch \in UserPatches,
        nullOk \in BOOLEAN :
       BeginUpdate(actor, target, patch, nullOk)
  \/ \E actor \in {"a1", "m1"}, target \in Accounts : BeginDelete(actor, target)
  \/ WriteUser
  \/ \E target \in Accounts, patch \in UserPatches, nullOk \in BOOLEAN :
       updateUser("r1", target, patch, nullOk)
  \/ \E target \in Accounts : deleteUser("r1", target)

SpecUserRace == Init /\ [][NextUserRace]_vars

\* A users collection with no root account.
InitSignup ==
  /\ stock = [p \in Products |-> MaxStock]
  /\ price = [p \in Products |-> 1]
  /\ InitRest
  /\ users = StaffUsers

\* Sign-up (POST /api/users) and PUT /api/users/:id by and on every account,
\* the new ones included, in a collection without root.
NextSignup ==
  \/ \E id \in Signups, body \in SignupBodies : createUser(id, body)
  \/ \E actor \in AllAccounts, target \in AllAccounts, patch \in UserPatches,
        nullOk \in BOOLEAN :
       updateUser(actor, target, patch, nullOk)

SpecSignup == InitSignup /\ [][NextSignup]_vars

\* PUT /api/products/:id and DELETE /api/products/:id with their responses.
ProductUpdate(u, p, patch, ownerRequired) ==
  /\ updateProduct(u, p, patch, ownerRequired)
  /\ Answered("updateProduct", u, [product |-> p, patch |-> patch],
              updateProductCode(u, p, patch, ownerRequired))
  /\ UNCHANGED userVars

ProductDelete(u, p) ==
  /\ deleteProduct(u, p)
  /\ Answered("deleteProduct", u, [product |-> p], deleteProductCode(u, p))
  /\ UNCHANGED userVars

ProductUpdateStep ==
  \E u \in Sellers, p \in ProductIds, patch \in ProductPatches, ownerRequired \in BOOLEAN :
    ProductUpdate(u, p, patch, ownerRequired)

ProductDeleteStep == \E u \in Sellers, p \in ProductIds : ProductDelete(u, p)

NextProducts ==
  \/ ProductUpdateStep
  \/ ProductDeleteStep

SpecProducts == Init /\ [][NextProducts]_vars

\* PUT /api/products/:id with bodies that name createdBy, beside price edits
\* and deletions.
NextOwners ==
  \/ \E u \in Sellers, p \in ProductIds, ownerRequired \in BOOLEAN,
        patch \in OwnerPatches \cup [field : {"price"}, value : Prices] :
       ProductUpdate(u, p, patch, ownerRequired)
  \/ ProductDeleteStep

SpecOwners == Init /\ [][NextOwners]_vars

\* GET /api/orders and GET /api/orders/:id with their responses; arg of a
\* list response is the set of order ids it carries.
getAllOrders(u) ==
  /\ Answered("getAllOrders", u, IF getAllOrdersCode(u) = 200 THEN OrdersFilter(u) ELSE {},
              getAllOrdersCode(u))
  /\ UNCHANGED << stock, price, orders, callVars, txVars, histVars, adminVars >>

getOrderById(u, o) ==
  /\ Answered("getOrderById", u, o, getOrderByIdCode(u, o))
  /\ UNCHANGED << stock, price, orders, callVars, txVars, histVars, adminVars >>

GetAllOrdersStep == \E u \in Readers : getAllOrders(u)

GetOrderByIdStep == \E u \in Readers, o \in OrderIds : getOrderById(u, o)

\* Order reads beside the placement of orders by well-formed requests.
NextReads ==
  \/ StartOpsStep
  \/ PlaceOrderStep
  \/ GetAllOrdersStep
  \/ GetOrderByIdStep

SpecReads == Init /\ [][NextReads]_vars

\* The permission names of the role table and one no role holds.
Permissions == UNION { rolesHierarchy[r].permissions : r \in Roles } \cup {"export_data"}
PermissionLists == { ps \in SUBSET Permissions : Cardinality(ps) <= MaxPerms }
AskedRoles  == Roles \cup {"ghost", NullRole}
NoUser      == "<no user>"       \* req.user is not set

\* permissionMiddleware.js lines 6-24 for a request of an actor with role.
permissionMiddleware(role, requiredPermissions) ==
  IF role = NoUser THEN 401 ELSE checkRole(role, requiredPermissions)

Flag(b) == IF b THEN 1 ELSE 0

\* One evaluation of a helper of utils/rbac.js or of the guard; a run makes
\* one evaluation, each is independent of the others.
AskPermission(role, permission) ==
  /\ last = NoLast
  /\ Answered("hasPermission", role, permission, Flag(hasPermission(role, permission)))
  /\ UNCHANGED << stock, price, orders, callVars, txVars, histVars, adminVars >>

AskAnyPermission(role, permissions) ==
  /\ last = NoLast
  /\ Answered("hasAnyPermission", role, permissions, Flag(hasAnyPermission(role, permissions)))
  /\ UNCHANGED << stock, price, orders, callVars, txVars, histVars, adminVars >>

AskRank(role) ==
  /\ last = NoLast
  /\ Answered("getRoleRank", role, "rank", getRoleRank(role))
  /\ UNCHANGED << stock, price, orders, callVars, txVars, histVars, adminVars >>

Guard(role, requiredPermissions) ==
  /\ last = NoLast
  /\ Answered("checkPermission", role, requiredPermissions,
              permissionMiddleware(role, requiredPermissions))
  /\ UNCHANGED << stock, price, orders, callVars, txVars, histVars, adminVars >>

AskPermissionStep    == \E role \in AskedRoles, q \in Permissions : AskPermission(role, q)
AskAnyPermissionStep == \E role \in AskedRoles, ps \in PermissionLists : AskAnyPermission(role, ps)
AskRankStep          == \E role \in AskedRoles : AskRank(role)
GuardStep ==
  \E role \in AskedRoles \cup {NoUser}, ps \in PermissionLists : Guard(role, ps)

NextGuard ==
  \/ AskPermissionStep
  \/ AskAnyPermissionStep
  \/ AskRankStep
  \/ GuardStep

SpecGuard == Init /\ [][NextGuard]_vars

\* ==================================================================== claims
RECURSIVE QtyOf(_, _)
\* Quantity the items ask of product p, all of its line items together.
QtyOf(items, p) ==
  IF items = << >> THEN 0
  ELSE (IF Head(items).product = p THEN Head(items).quantity ELSE 0) + QtyOf(Tail(items), p)

RECURSIVE LineSum(_)
\* Sum over stored line items of quantity x recorded unit price.
LineSum(lines) ==
  IF lines = << >> THEN 0
  ELSE Head(lines).quantity * Head(lines).price + LineSum(Tail(lines))

Answered201 == { c \in Calls : res[c] = 201 }
Answered409 == { c \in Calls : res[c] = 409 }
Finished    == { c \in Calls : pc[c] = "done" }
Quiescent   == \A c \in Calls : pc[c] \in {"idle", "done"}
Committing(c) == pc[c] = "loop" /\ pc'[c] = "fetch"

C2_StockNonNegative == \A p \in Products : stock[p] >= 0

C2_SoldOut == \E c \in Calls, p \in Products : applied[c][p] > 0 /\ stock[p] = 0

\* C3 (Spec): a request answered 404 or 409 has taken nothing from the
\* committed stock of any product and has left no order, also when it had
\* decremented earlier products before the failing one.
C3_FailedAttemptLeavesNoTrace ==
  \A c \in Calls : res[c] \in {404, 409} =>
     /\ applied[c] = ZeroDec
     /\ ~created[c]
     /\ c \notin DOMAIN orders

C3_FailedAfterDecrement ==
  \E c \in Calls, p \in Products : res[c] \in {404, 409} /\ undone[c][p] > 0

\* C4 (SpecOps): the totalAmount of every stored order is the sum over its
\* line items of quantity x recorded unit price.
C4_TotalIsLineSum ==
  \A o \in DOMAIN orders : orders[o].totalAmount = LineSum(orders[o].products)

C5_OneDecrementPerProduct ==
  \A c \in Calls : pc[c] = "loop" =>
     /\ Cardinality(wrote[c]) = k[c] - 1
     /\ \A p \in Products :
          txDec[c][p] = IF p \in wrote[c] THEN QtyOf(req[c].products, p) ELSE 0

C5_ConflictOnMergedQty ==
  \A c \in Calls :
    (pc[c] = "loop" /\ k[c] <= Len(MergedKeys(req[c].products))
       /\ MergedKeys(req[c].products)[k[c]] \in Products) =>
      LET p == MergedKeys(req[c].products)[k[c]] IN
      /\ res'[c] = 409 => QtyOf(req[c].products, p) > snap[c].stock[p]
      /\ (QtyOf(req[c].products, p) > snap[c].stock[p] /\ pc'[c] # pc[c]) => res'[c] = 409

\* C5 (Spec): the line items of one product are checked as one request: each
\* distinct product gets one conditional decrement, of the sum of its
\* quantities, and the request is answered 409 exactly when that sum exceeds
\* the stock.
C5_MergedRequest == []C5_OneDecrementPerProduct /\ [][C5_ConflictOnMergedQty]_vars

C5_TwoItemsOneDecrement ==
  \E c \in Calls :
    /\ pc[c] = "loop"
    /\ Len(req[c].products) = 2
    /\ req[c].products[1].product = req[c].products[2].product
    /\ req[c].products[1].quantity >= 1
    /\ req[c].products[2].quantity >= 1
    /\ req[c].products[1].product \in wrote[c]

NonPositive(items) == \E i \in 1..Len(items) : items[i].quantity <= 0

\* C6 (Spec): a request with a line item of quantity <= 0 is answered 400
\* and never commits: no stock changes and no order is created.
C6_NonPositiveRejected ==
  [][\A c \in Calls :
       (pc[c] \in {"callback", "loop"} /\ NonPositive(req[c].products)) =>
          /\ ~Committing(c)
          /\ pc'[c] = "done" => res'[c] = 400]_vars

\* C7 as stated (SpecOps): the stock of a product changes only in the commit
\* of a createOrder transaction.
C7_OnlyPlaceOrder ==
  [][stock' # stock => \E c \in Calls : Committing(c)]_vars

\* C7 (SpecOps): the stock of a product changes only through the conditional
\* decrement of createOrder or through an updateProduct whose body sets
\* stock; deleteOrder, updateOrder and updateOrderStatus never change it.
C7_OnlyPlaceOrderOrRestock ==
  [][\A p \in Products : stock'[p] # stock[p] =>
       \/ \E c \in Calls : /\ Committing(c)
                          /\ txDec[c][p] <= snap[c].stock[p]
                          /\ stock'[p] = stock[p] - txDec[c][p]
       \/ \E u \in Users, v \in 0..MaxStock :
            /\ updateProductCode(u, p, [field |-> "stock", value |-> v], TRUE) = 200
            /\ updateProduct(u, p, [field |-> "stock", value |-> v], TRUE)]_vars

C7_DeletedOrderKeepsStock ==
  \E c \in Calls, p \in Products :
    /\ created[c]
    /\ c \notin DOMAIN orders
    /\ applied[c][p] > 0
    /\ stock[p] = MaxStock - applied[c][p]

\* C8 (Spec): a request answered with an error has taken nothing from the
\* committed stock and has left no order; stock is taken only by a request
\* whose order was committed.
C8_AllOrNothing ==
  \A c \in Calls :
    /\ res[c] \notin {0, 201} => (applied[c] = ZeroDec /\ ~created[c])
    /\ applied[c] # ZeroDec => created[c]

\* C9 (SpecStatus): a delivery actor asking for a valid status other than
\* "delivered" is answered 403 and no order changes; asking for "delivered"
\* on an existing order is answered 200 and the order is "delivered"; no
\* status it changes becomes anything else.
C9_DeliveryOnlyDelivers ==
  [][\A u \in Users, o \in OrderIds, s \in Statuses :
       (RoleOf(u) = "delivery" /\ SetStatus(u, o, s)) =>
          /\ s \in validStatuses \ {"delivered"} => (last'.code = 403 /\ orders' = orders)
          /\ (s = "delivered" /\ o \in DOMAIN orders) =>
                (last'.code = 200 /\ orders'[o].status = "delivered")
          /\ \A i \in DOMAIN orders :
                orders'[i].status # orders[i].status => orders'[i].status = "delivered"]_vars

C9_DeliveryRefusedAfterDelivering ==
  /\ last.op = "updateOrderStatus"
  /\ RoleOf(last.by) = "delivery"
  /\ last.arg \in validStatuses \ {"delivered"}
  /\ last.code = 403
  /\ \E o \in DOMAIN orders : orders[o].status = "delivered"

StatusesValid == \A o \in DOMAIN orders : orders[o].status \in validStatuses

InvalidStatusRefused ==
  \A u \in Users, o \in OrderIds, s \in Statuses \ validStatuses :
    SetStatus(u, o, s) =>
       /\ orders' = orders
       /\ last'.code = IF checkPermission(u, {"update_order_status", "manage_orders"}) = 0
                       THEN 400 ELSE 403

Rank(r)     == IF r \in DOMAIN rolesHierarchy THEN rolesHierarchy[r].rank ELSE 0
Wildcard(r) == r \in DOMAIN rolesHierarchy /\ "all" \in rolesHierarchy[r].permissions
Holds(r, q) == r \in DOMAIN rolesHierarchy /\ (q \in rolesHierarchy[r].permissions \/ Wildcard(r))
NonEmpty(patch) == patch.role # Absent \/ patch.name # Absent
UpdateAnswer == last.op = "updateUser"

\* The request a step of updateUser or deleteUser answers.
UpdateUserAnswered == last'.op = "updateUser" /\ nreq' = nreq + 1
DeleteUserAnswered == last'.op = "deleteUser" /\ nreq' = nreq + 1
Existing(a, t)     == a \in DOMAIN users /\ t \in DOMAIN users

\* C11 (SpecUsers): an actor without the wildcard that updates another
\* existing account succeeds only if its rank is strictly above the target's;
\* at a rank equal to or below the target's the answer is 403 and the target
\* is unchanged; strictly above it, a patch without a role is answered 200
\* and applied.
C11_HigherRankOnly ==
  [][UpdateUserAnswered =>
       LET a == last'.by
           t == last'.arg.target
           patch == last'.arg.patch
       IN ( /\ a # t /\ Existing(a, t)
            /\ users[a].role \in Roles /\ ~Wildcard(users[a].role)
            /\ NonEmpty(patch) ) =>
          /\ last'.code = 200 => Rank(users[a].role) > Rank(users[t].role)
          /\ Rank(users[a].role) <= Rank(users[t].role) => (last'.code = 403 /\ users' = users)
          /\ (Rank(users[a].role) > Rank(users[t].role) /\ patch.role = Absent) =>
                (last'.code = 200 /\ users'[t] = [users[t] EXCEPT !.name = patch.name])]_vars

C11_EqualRankRefused ==
  /\ UpdateAnswer
  /\ last.code = 403
  /\ Existing(last.by, last.arg.target)
  /\ last.by # last.arg.target
  /\ users[last.by].role = "manager" /\ users[last.arg.target].role = "manager"
  /\ last.arg.patch.role = Absent

\* C12 as stated (SpecUsers): an actor whose role holds "all" that updates
\* another existing account of equal or higher rank is not refused with 403.
C12_WildcardUpdatesAnyone ==
  [][UpdateUserAnswered =>
       LET a == last'.by
           t == last'.arg.target
       IN ( /\ a # t /\ Existing(a, t)
            /\ Wildcard(users[a].role)
            /\ Rank(users[t].role) >= Rank(users[a].role)
            /\ NonEmpty(last'.arg.patch) ) => last'.code # 403]_vars

\* C13 as stated (SpecUsers): the role of an account other than the actor's
\* changes only if the actor holds assign_roles and, unless it holds "all",
\* the new role ranks strictly below the actor's; a request whose body names
\* a role and that does not meet this is answered 403 and changes no role.
C13_RoleChangeNeedsAuthority ==
  [][UpdateUserAnswered =>
       LET a == last'.by
           t == last'.arg.target
           patch == last'.arg.patch
           entitled == /\ Holds(users[a].role, "assign_roles")
                       /\ (Wildcard(users[a].role) \/ Rank(patch.role) < Rank(users[a].role))
       IN (a # t /\ Existing(a, t)) =>
             /\ users'[t].role # users[t].role => entitled
             /\ (patch.role \notin {Absent, NullRole, ""} /\ ~entitled) =>
                   (last'.code = 403 /\ users'[t].role = users[t].role)]_vars

\* C14 as stated (SpecUsers): a request an account makes on itself never
\* changes the role of that account, whatever the body's role.
C14_NoOwnRoleChange ==
  [][UpdateUserAnswered =>
       LET a == last'.by
       IN (a = last'.arg.target /\ a \in DOMAIN users) =>
             users'[a].role = users[a].role]_vars

\* C15 as stated (SpecUsers): an actor that holds assign_roles and sends a
\* body with a role to its own account is answered 403.
C15_OwnRoleAlways403 ==
  [][UpdateUserAnswered =>
       LET a == last'.by
       IN ( /\ a = last'.arg.target /\ a \in DOMAIN users
            /\ Holds(users[a].role, "assign_roles")
            /\ last'.arg.patch.role # Absent ) => last'.code = 403]_vars

\* C15 (SpecUsers): an actor that holds assign_roles and sends a body whose
\* role names a role of the role table to its own account is answered 403
\* and its account is unchanged; a role string the table does not know is
\* answered 400.
C15_OwnKnownRole403 ==
  [][UpdateUserAnswered =>
       LET a == last'.by
           patch == last'.arg.patch
       IN ( /\ a = last'.arg.target /\ a \in DOMAIN users
            /\ Holds(users[a].role, "assign_roles") ) =>
             /\ patch.role \in DOMAIN rolesHierarchy => (last'.code = 403 /\ users' = users)
             /\ patch.role = "ghost" => (last'.code = 400 /\ users' = users)]_vars

C15_OwnRoleRefused ==
  /\ UpdateAnswer
  /\ last.code = 403
  /\ last.by = last.arg.target
  /\ last.by \in DOMAIN users
  /\ users[last.by].role = "admin"
  /\ last.arg.patch.role = "user"

\* C16 (SpecUsers): a delete request removes an existing account only if the
\* actor's rank is strictly above the target's or the actor holds "all";
\* otherwise the answer is 403 and the account is still there, the actor's
\* own account included.
C16_DeleteNeedsHigherRank ==
  [][DeleteUserAnswered =>
       LET a == last'.by
           t == last'.arg.target
           entitled == Rank(users[a].role) > Rank(users[t].role) \/ Wildcard(users[a].role)
       IN Existing(a, t) =>
             /\ t \notin DOMAIN users' => entitled
             /\ ~entitled => (last'.code = 403 /\ users' = users)]_vars

C16_EqualRankDeleteRefused ==
  /\ last.op = "deleteUser"
  /\ last.code = 403
  /\ Existing(last.by, last.arg.target)
  /\ last.by # last.arg.target
  /\ users[last.by].role = "admin" /\ users[last.arg.target].role = "admin"

\* ------------------------------------------------------- claims on the guard
\* C17 (SpecGuard): hasPermission(R, P) answers true exactly when R is a row
\* of the role table whose permissions contain P or "all"; hasAnyPermission
\* answers true exactly when some permission of the list does; a role the
\* table does not know has rank 0, holds nothing and is refused by the guard.
C17_EvaluatorMatchesTable ==
  /\ last.op = "hasPermission" => (last.code = 1 <=> Holds(last.by, last.arg))
  /\ last.op = "hasAnyPermission" =>
        (last.code = 1 <=> \E q \in last.arg : Holds(last.by, q))
  /\ (last.op = "getRoleRank" /\ last.by \in DOMAIN rolesHierarchy) =>
        last.code = rolesHierarchy[last.by].rank
  /\ (last.op \in {"hasPermission", "hasAnyPermission", "getRoleRank"}
      /\ last.by \notin DOMAIN rolesHierarchy) => last.code = 0
  /\ (last.op = "checkPermission" /\ last.by \notin DOMAIN rolesHierarchy \cup {NoUser}) =>
        last.code = 403

C17_WildcardHolds ==
  /\ last.op = "hasPermission"
  /\ last.by = "root"
  /\ last.arg = "export_data"
  /\ last.code = 1

\* C18 as stated (SpecGuard): the guard lets every authenticated actor whose
\* role holds "all" through, whatever the list of required permissions, the
\* empty list included.
C18_WildcardAlwaysAllowed ==
  (last.op = "checkPermission" /\ Wildcard(last.by)) => last.code = 0

\* ------------------------------------------------------- claims on products
\* C19 (SpecProducts): an update or delete request on an existing product is
\* carried out only if the actor's role holds manage_products (or "all"), or
\* holds manage_own_products and the actor created the product; such a
\* request with a body that passes validation is answered 200, every other
\* one is answered 403 and leaves the products as they were.
C19_OwnerOrManager ==
  [][last'.op \in {"updateProduct", "deleteProduct"} =>
       LET u == last'.by
           p == last'.arg.product
           wellFormed == last'.op = "updateProduct" => last'.arg.patch.value >= 0
           entitled == \/ Holds(RoleOf(u), "manage_products")
                       \/ Holds(RoleOf(u), "manage_own_products") /\ CreatedBy(p) = u
       IN p \in Products \ gone =>
             /\ (stock'[p] # stock[p] \/ price'[p] # price[p] \/ p \in gone') => entitled
             /\ (entitled /\ wellFormed) => last'.code = 200
             /\ (~entitled /\ wellFormed) =>
                   (last'.code = 403 /\ stock' = stock /\ price' = price /\ gone' = gone)]_vars

C19_OtherVendorRefused ==
  /\ last.op = "updateProduct"
  /\ last.by = "v2"
  /\ last.arg.product = "p2"
  /\ last.arg.patch.value >= 0
  /\ last.code = 403
  /\ "p2" \notin gone
  /\ \E p \in gone : TRUE

\* ---------------------------------------------------- claims on order reads
\* C20 (SpecReads): an actor whose role holds neither read_orders nor
\* manage_orders (nor "all") is never given another actor's order: the list
\* it gets carries only orders whose user it is, and asking for another
\* actor's order by id is answered 403.
C20_OwnOrdersOnly ==
  [][(last' # last /\ last'.op \in {"getAllOrders", "getOrderById"}) =>
       LET u == last'.by
           r == RoleOf(last'.by)
       IN (~Holds(r, "read_orders") /\ ~Holds(r, "manage_orders")) =>
             /\ last'.op = "getAllOrders" =>
                   \A o \in last'.arg : o \in DOMAIN orders /\ orders[o].user = u
             /\ ( /\ last'.op = "getOrderById"
                  /\ last'.arg \in DOMAIN orders
                  /\ orders[last'.arg].user # u ) => last'.code = 403
             /\ (last'.op = "getOrderById" /\ last'.code = 200) => orders[last'.arg].user = u]_vars

C20_OtherUsersOrderRefused ==
  /\ last.op = "getOrderById"
  /\ last.by = "u2"
  /\ last.arg \in DOMAIN orders
  /\ orders[last.arg].user = "u1"
  /\ last.code = 403

\* ------------------------------------------- claims on the placement loop
\* The request of call c names a product id of no product document.
NamesMissing(c) == \E i \in 1..Len(req[c].products) : req[c].products[i].product \notin Products

\* C23 (Spec): a request that names a product id of no document is answered
\* 404 whatever else it names and in whatever order, and its transaction has
\* issued no stock decrement when it is answered.
C23_MissingProductFirst ==
  [][\A c \in Calls :
       (pc[c] = "loop" /\ NamesMissing(c) /\ pc'[c] = "done") =>
          (res'[c] = 404 /\ undone'[c] = ZeroDec)]_vars

\* ------------------------------------------- claims on status transitions
\* C24 (SpecMoves): an actor whose role is not delivery and passes the status
\* route's permission check moves an existing order from whatever status it
\* has to any of the five valid statuses: the request is answered 200 and the
\* order carries the requested status, with no forward-only ordering.
C24_AnyStatusReachable ==
  [][(last' # last /\ last'.op = "moveStatus") =>
       LET a == last'.arg
           u == last'.by
       IN ( /\ RoleOf(u) # "delivery"
            /\ checkPermission(u, {"update_order_status", "manage_orders"}) = 0
            /\ a.order \in DOMAIN orders
            /\ a.to \in validStatuses ) =>
              /\ last'.code = 200
              /\ orders'[a.order].status = a.to
              /\ orders[a.order].status = a.from]_vars

\* A delivered order was moved back to pending.
C24_DeliveredBackToPending ==
  /\ last.op = "moveStatus"
  /\ last.code = 200
  /\ last.arg.from = "delivered"
  /\ last.arg.to = "pending"
  /\ RoleOf(last.by) # "delivery"
  /\ orders[last.arg.order].status = "pending"

\* ------------------------------------- claims on re-executed transactions
\* The stored line items are the request's items, one for one.
SameItems(lines, items) ==
  /\ Len(lines) = Len(items)
  /\ \A i \in 1..Len(items) :
        lines[i].product = items[i].product /\ lines[i].quantity = items[i].quantity

\* C26 (SpecFaults): every committed order stores exactly the line items of
\* its request, and what its transaction took from each product's stock is
\* the sum of the stored line-item quantities for that product, also when the
\* transaction body ran more than once.
C26_OrderMatchesDecrements ==
  [][\A c \in Calls :
       Committing(c) =>
          /\ SameItems(orders'[c].products, req[c].products)
          /\ \A p \in Products : applied'[c][p] = QtyOf(orders'[c].products, p)]_vars

\* ------------------------------------------------ claims on termination
\* The next entry of call c asks for more than the stock its snapshot shows.
InsufficientNext(c) ==
  /\ pc[c] = "loop"
  /\ k[c] <= Len(MergedKeys(req[c].products))
  /\ MergedKeys(req[c].products)[k[c]] \in Products
  /\ ~StockFilter(c, MergedKeys(req[c].products)[k[c]],
                  MergedQty(req[c].products, MergedKeys(req[c].products)[k[c]]))

\* A conditional decrement that finds insufficient stock is not tried again:
\* the request's next step answers 409.
InsufficientAnswered409 ==
  \A c \in Calls :
    (InsufficientNext(c) /\ (pc'[c] # pc[c] \/ k'[c] # k[c])) =>
       (pc'[c] = "done" /\ res'[c] = 409)

\* C25 (SpecLive): every createOrder request that entered the handler is
\* answered, with the created order or with an error; a decrement that finds
\* insufficient stock is answered 409 without further attempts, and no set of
\* concurrent requests retries for ever or blocks one another for ever.
C25_EveryCallAnswered ==
  /\ [][InsufficientAnswered409]_vars
  /\ \A c \in Calls : (pc[c] = "callback") ~> (pc[c] = "done" /\ res[c] # 0)

\* Two concurrent requests were both answered, one with the order and one
\* with 409.
C25_BothAnswered ==
  /\ Quiescent
  /\ \E c, d \in Calls : res[c] = 201 /\ res[d] = 409

\* ------------------------------------------- claims on product ownership
\* C22 (SpecOwners): no updateProduct request changes createdBy of any
\* product, whatever its body carries in createdBy (null, the empty string,
\* another user's id), and after a request answered 200 the product's
\* updatedBy is the calling actor's id.
C22_CreatedByNeverChanges ==
  [][/\ createdBy' = createdBy
     /\ (last' # last /\ last'.op = "updateProduct" /\ last'.code = 200) =>
           updatedBy'[last'.arg.product] = last'.by]_vars

\* ------------------------------------------------ claims on passwords
\* bcryptjs.compare of a plain password with a stored hash.
Compare(pw, stored) == stored = Hash(pw)

\* The request a step of simplePasswordUpdate answers.
PasswordAnswered == last'.op = "simplePasswordUpdate" /\ nreq' = nreq + 1

\* C21 (SpecPasswords): a change of an account's own password is applied only
\* if the currentPassword of the body matches the password stored for the
\* account.
C21_OwnChangeNeedsCurrentPassword ==
  [][(PasswordAnswered /\ last'.by = last'.arg.target) =>
       ((last'.code = 200 \/ password' # password) =>
           Compare(last'.arg.body.currentPassword, password[last'.arg.target]))]_vars

\* C29 (SpecPasswords): an actor without the wildcard changes the password of
\* another account only if its rank is strictly above that account's rank.
C29_PasswordNeedsHigherRank ==
  [][(PasswordAnswered /\ last'.by # last'.arg.target) =>
       LET a == last'.by
           t == last'.arg.target
       IN (Existing(a, t) /\ ~Wildcard(users[a].role)
             /\ (last'.code = 200 \/ password'[t] # password[t])) =>
            Rank(users[a].role) > Rank(users[t].role)]_vars

\* ------------------------------------------------ claims on escalation
RECURSIVE TopRankOf(_, _)
\* The highest rank among the accounts as of the collection us.
TopRankOf(us, as) ==
  IF as = {} THEN 0
  ELSE LET a == CHOOSE x \in as : TRUE
           rest == TopRankOf(us, as \ {a})
       IN IF Rank(us[a].role) > rest THEN Rank(us[a].role) ELSE rest

TopRank(us) == TopRankOf(us, DOMAIN us)

\* An account that sign-up creates has role "user", whatever the body says.
SignupGivesUser ==
  (last'.op = "createUser" /\ last'.code = 201 /\ users' # users) =>
     /\ last'.arg.id \notin DOMAIN users
     /\ users'[last'.arg.id].role = "user"
     /\ \A a \in DOMAIN users : users'[a] = users[a]

\* C28 (SpecSignup): sign-up always creates an account of role "user",
\* whatever role its body names, and after any sequence of sign-ups and
\* updateUser requests by actors without the wildcard the highest rank held by
\* any account is no greater than it was at the start.
C28_NoEscalation ==
  /\ [](TopRank(users) <= TopRank(StaffUsers))
  /\ [](\A a \in DOMAIN users : ~Wildcard(users[a].role))
  /\ [][SignupGivesUser]_vars

\* An account that signed up was then given the role manager by the admin.
C28_SignupThenPromoted ==
  /\ "s1" \in DOMAIN users
  /\ users["s1"].role = "manager"
  /\ last.op = "updateUser"
  /\ last.by = "a1"
  /\ last.code = 200
  /\ last.arg.target = "s1"
  /\ last.arg.patch.role = "manager"

\* ------------------------------------- claims on concurrent user management
\* C27 (SpecUserRace): the hierarchy check and the write of updateUser and
\* deleteUser act as one step: a write by an actor without the wildcard never
\* applies to another account whose role, at the moment of the write, has a
\* rank equal to or above the actor's.
C27_CheckAndWriteAtomic ==
  [][( /\ inflight # NoFlight
       /\ inflight' = NoFlight
       /\ inflight.by # inflight.target
       /\ ~Wildcard(inflight.role)
       /\ inflight.target \in DOMAIN users ) =>
          Rank(users[inflight.target].role) < Rank(inflight.role)]_vars

====
